---- MODULE Spec2Model ----
(***************************************************************************)
(* Session lifecycle of the WhatsApp client of don-confiado-whatsapp-qr.   *)
(* The repository holds several revisions of WhatsAppHandler; the variable *)
(* rev fixes the revision a behaviour runs:                                *)
(*   "initSocket"  global_resource.ts 202-456 (handler owns initSocket)    *)
(*   "echo"        global_resource.ts 30-170  (same lifecycle, echo relay) *)
(*   "restartSock" global_resource.ts 458-565 with main of part_001        *)
(*   "main"        index.ts 23-129 (unnamed/part_002 has the same handler) *)
(* A step of the model is one run of a handler up to its first suspension  *)
(* (await) or its end; what is awaited is a pending count that a later     *)
(* step completes.                                                         *)
(***************************************************************************)
EXTENDS Integers, Sequences, FiniteSets, TLC

VARIABLES
  rev,            \* revision of WhatsAppHandler under analysis
  handlers,       \* WhatsAppHandler instances: fields and per-instance history
  socks,          \* sockets made by makeWASocket, in creation order
  exitCode,       \* Running, or the code given to process.exit
  authFolder,     \* TRUE iff the folder auth_info_baileys exists on disk
  authLoads,      \* number of useMultiFileAuthState loads so far
  pendingLogout,  \* sock.logout() promises still awaited
  pendingInit,    \* initSocket calls suspended at await useMultiFileAuthState
  pendingSave,    \* saveCreds() promises not yet settled
  unhandled,      \* TRUE once a promise rejection was left without a handler
  loggedOutClosed,\* history: a handler ran the logged-out branch of a close
  lastEvent,      \* history: the event or completion handled by the last step
  inbox,          \* messages delivered by messages.upsert so far; index = id
  reads,          \* ids whose key was passed to sock.readMessages
  calls,          \* ids for which a Chat Backend request was issued
  inflight,       \* ids whose Chat Backend request has not settled yet
  sent,           \* sock.sendMessage calls, in call order
  waiting,        \* onMessagesUpsert runs suspended at a media download
  effects,        \* history of the relay: read receipts, media retrievals,
                  \* backend requests and how each request settled, in order
  boot,           \* position of the start-up path (startWhatsApp); "up" once
                  \* the first socket and handler exist
  cli             \* the chat CLI (chat_cli.ts), a program of its own

lifeVars == <<rev, handlers, socks, exitCode, authFolder, authLoads, pendingLogout,
              pendingInit, pendingSave, unhandled, loggedOutClosed>>

relayVars == <<inbox, reads, calls, inflight, sent, waiting, effects>>

otherVars == <<boot, cli>>

vars == <<lifeVars, relayVars, lastEvent, otherVars>>

(***************************************************************************)
(* Program constants and model bounds                                      *)
(***************************************************************************)
maxQrAttempts == 3

MaxSocks == 3
MaxQr == 5
MaxPending == 1
MaxInbox == 2
MaxBatch == 2
MaxRetry == 5
MaxLines == 3

Running == -1

InitRevs == {"initSocket", "echo"}
LifecycleRevs == {"initSocket", "restartSock", "main"}
RelayRevs == {"initSocket", "echo", "restartSock", "main"}
\* revisions whose reconnect first awaits useMultiFileAuthState: the two
\* initSocket revisions and the entry point that keeps its state in the
\* closure of main()
AsyncRevs == InitRevs \cup {"closure"}
ReconnectRevs == {"initSocket", "closure"}

EventNames == {"creds.update", "messages.upsert", "connection.update"}

Connections == {"none", "open", "close"}

\* update.lastDisconnect: absent, or carrying error.output.statusCode, which
\* itself may be undefined.
Codes == {"undefined", "loggedOut", "restartRequired"}
NoDisconnect == [present |-> FALSE, statusCode |-> "undefined"]
LastDisconnects == {NoDisconnect} \cup {[present |-> TRUE, statusCode |-> c] : c \in Codes}

(***************************************************************************)
(* Pure pieces of the handlers                                             *)
(***************************************************************************)
\* (lastDisconnect?.error as any)?.output?.statusCode
StatusCode(ld) == IF ld.present THEN ld.statusCode ELSE "undefined"

ShouldReconnect_OnlyRestartRequired(ld) == StatusCode(ld) = "restartRequired"

ShouldReconnect_NoCodeNoReconnect(ld) == ld.present /\ ld.statusCode \notin {"loggedOut", "undefined"}

\* statusCode !== DisconnectReason.loggedOut
ShouldReconnect(ld) == StatusCode(ld) # "loggedOut"

QrExhausted_OffByOne(q) == q > maxQrAttempts + 1

\* this.qrAttempts > this.maxQrAttempts
QrExhausted(q) == q > maxQrAttempts

DeleteAuthFolder_Keep(exists) == exists

\* deleteAuthFolder: afterwards the folder does not exist
DeleteAuthFolder(exists) == FALSE

NewHandler(s) == [qrAttempts |-> 0, sock |-> s, renders |-> 0, logouts |-> 0]

NewSock(h, gen) == [owner |-> h, on |-> EventNames, closed |-> FALSE, auth |-> gen]

OnConnectionUpdateQR_RenderFirst(hr) ==
  LET q == hr.qrAttempts + 1 IN
  IF QrExhausted(q)
    THEN [hr EXCEPT !.qrAttempts = q, !.renders = @ + 1, !.logouts = @ + 1]
    ELSE [hr EXCEPT !.qrAttempts = q, !.renders = @ + 1]

\* The QR part of a connection.update: count the challenge, then either call
\* sock.logout() (awaited) or hand the payload to QRCode.toString.
OnConnectionUpdateQR(hr) ==
  LET q == hr.qrAttempts + 1 IN
  IF QrExhausted(q)
    THEN [hr EXCEPT !.qrAttempts = q, !.logouts = @ + 1]
    ELSE [hr EXCEPT !.qrAttempts = q, !.renders = @ + 1]

OnConnectionOpen_Reset(hr) == [hr EXCEPT !.qrAttempts = 0]

\* connection === "open": a console.log, the handler's fields are left alone
OnConnectionOpen(hr) == hr

RECURSIVE SumQr(_)
SumQr(hs) == IF hs = <<>> THEN 0 ELSE Head(hs).qrAttempts + SumQr(Tail(hs))

Ev(type, qr, conn, ld) ==
  [type |-> type, qr |-> qr, connection |-> conn, ld |-> ld]

Completion(type) == Ev(type, FALSE, "none", NoDisconnect)

\* chat_cli.ts is not running
CliOff == [pc |-> "off", userId |-> "none", text |-> <<>>, log |-> <<>>,
           reqs |-> <<>>, out |-> <<>>, closed |-> FALSE]

(***************************************************************************)
(* Initial state: the entry point has loaded the credentials once and made *)
(* the first socket, whose three events are bound to the first handler.    *)
(***************************************************************************)
InitIn(revs) ==
  /\ rev \in revs
  /\ handlers = <<NewHandler(1)>>
  /\ socks = <<NewSock(1, 1)>>
  /\ exitCode = Running
  /\ authFolder = TRUE
  /\ authLoads = 1
  /\ pendingLogout = 0
  /\ pendingInit = 0
  /\ pendingSave = 0
  /\ unhandled = FALSE
  /\ loggedOutClosed = FALSE
  /\ lastEvent = Completion("start")
  /\ inbox = <<>>
  /\ reads = {}
  /\ calls = {}
  /\ inflight = {}
  /\ sent = <<>>
  /\ waiting = <<>>
  /\ effects = <<>>
  /\ boot = "up"
  /\ cli = CliOff

Init == InitIn(LifecycleRevs)

(***************************************************************************)
(* main(): a new socket from the credentials already held, and a new       *)
(* handler bound to its three events.                                      *)
(***************************************************************************)
MainSocks(ss, hs) == Append(ss, NewSock(Len(hs) + 1, 1))

MainHandlers(ss, hs) == Append(hs, NewHandler(Len(ss) + 1))

(***************************************************************************)
(* connection.update delivered by socket s.  ok is the outcome of a        *)
(* synchronous makeWASocket inside main() where the revision calls it.     *)
(* maxSocks bounds the sockets of a behaviour; the code has no such bound. *)
(***************************************************************************)
OnConnectionUpdateIn(maxSocks, s, qr, conn, ld, ok) ==
  LET h == socks[s].owner
      hq == IF qr THEN OnConnectionUpdateQR(handlers[h])
            ELSE IF conn = "open" THEN OnConnectionOpen(handlers[h])
            ELSE handlers[h]
      exhausted == qr /\ QrExhausted(hq.qrAttempts)
      \* initSocket/echo: onConnectionUpdateQR is called without await, so the
      \* close part runs in the same turn.  restartSock/main: the handler
      \* itself awaits logout and then exits, the close part is never reached.
      reachesClose == conn = "close" /\ (rev \in InitRevs \/ ~exhausted)
      reconnect == reachesClose /\ ShouldReconnect(ld)
      terminal == reachesClose /\ ~ShouldReconnect(ld)
      creates == (reconnect /\ rev \notin AsyncRevs) \/ (terminal /\ rev = "restartSock")
      hs1 == [handlers EXCEPT ![h] = hq]
      ss1 == IF conn = "close" THEN [socks EXCEPT ![s].closed = TRUE] ELSE socks
  IN
  /\ exitCode = Running
  /\ "connection.update" \in socks[s].on
  /\ qr => SumQr(handlers) < MaxQr
  /\ (conn = "close" /\ ShouldReconnect(ld)) \/ (conn = "close" /\ rev = "restartSock")
       => Len(socks) + pendingInit < maxSocks
  /\ conn # "close" => ld = NoDisconnect
  \* unnamed/part_000, line 17: "on a qr event, the connection and
  \* lastDisconnect fields will be empty".  An update with neither a qr nor
  \* a connection runs no branch of the handler and is left out.
  /\ qr <=> conn = "none"
  /\ ~creates => ok
  /\ lastEvent' = Ev("connection.update", qr, conn, ld)
  /\ UNCHANGED otherVars
  /\ pendingLogout' = IF exhausted THEN pendingLogout + 1 ELSE pendingLogout
  /\ pendingInit' = IF reconnect /\ rev \in AsyncRevs THEN pendingInit + 1 ELSE pendingInit
  /\ loggedOutClosed' = (loggedOutClosed \/ terminal)
  /\ IF creates /\ ok
       THEN /\ socks' = MainSocks(ss1, hs1)
            /\ handlers' = MainHandlers(ss1, hs1)
       ELSE /\ socks' = ss1
            /\ handlers' = hs1
  /\ authFolder' = IF terminal /\ rev \in InitRevs THEN DeleteAuthFolder(authFolder)
                   ELSE authFolder
  /\ exitCode' = IF terminal /\ rev # "restartSock" THEN 0
                 ELSE IF reconnect /\ creates /\ ~ok THEN 1
                 ELSE exitCode
  \* restartSock revision, logged-out branch: this.restartSock() is not awaited
  /\ unhandled' = (unhandled \/ (terminal /\ creates /\ ~ok))
  /\ UNCHANGED <<rev, authLoads, pendingSave>>
  /\ UNCHANGED relayVars

OnConnectionUpdate(s, qr, conn, ld, ok) == OnConnectionUpdateIn(MaxSocks, s, qr, conn, ld, ok)

\* await this.sock.logout() returns: process.exit(1)
LogoutResolved ==
  /\ exitCode = Running
  /\ pendingLogout > 0
  /\ pendingLogout' = pendingLogout - 1
  /\ exitCode' = 1
  /\ lastEvent' = Completion("logout.resolved")
  /\ UNCHANGED otherVars
  /\ UNCHANGED <<rev, handlers, socks, authFolder, authLoads, pendingInit,
                 pendingSave, unhandled, loggedOutClosed>>
  /\ UNCHANGED relayVars

\* sock.logout() rejects: the awaiting async function rejects, and nothing
\* handles the promise it returned.
LogoutRejected ==
  /\ exitCode = Running
  /\ pendingLogout > 0
  /\ pendingLogout' = pendingLogout - 1
  /\ unhandled' = TRUE
  /\ lastEvent' = Completion("logout.rejected")
  /\ UNCHANGED otherVars
  /\ UNCHANGED <<rev, handlers, socks, exitCode, authFolder, authLoads,
                 pendingInit, pendingSave, loggedOutClosed>>
  /\ UNCHANGED relayVars

\* initSocket resumes after useMultiFileAuthState: credentials reloaded, a new
\* socket made and bound to the same handler.  If loading or makeWASocket
\* throws, onConnectionUpdateClose catches it and exits with 1.
InitSocketDone(ok) ==
  /\ exitCode = Running
  /\ rev \in InitRevs
  /\ pendingInit > 0
  /\ pendingInit' = pendingInit - 1
  /\ lastEvent' = Completion(IF ok THEN "initSocket.done" ELSE "initSocket.failed")
  /\ UNCHANGED otherVars
  /\ IF ok
       THEN /\ authLoads' = authLoads + 1
            /\ authFolder' = TRUE
            /\ socks' = Append(socks, NewSock(1, authLoads + 1))
            \* this.sock is replaced; qrAttempts is not touched
            /\ handlers' = [handlers EXCEPT ![1].sock = Len(socks) + 1]
            /\ exitCode' = exitCode
       ELSE /\ exitCode' = 1
            /\ UNCHANGED <<authLoads, authFolder, socks, handlers>>
  /\ UNCHANGED <<rev, pendingLogout, pendingSave, unhandled, loggedOutClosed>>
  /\ UNCHANGED relayVars

\* Closure revision: the main() called from the close branch resumes after
\* useMultiFileAuthState and makes a socket whose handlers close over a new
\* qrAttempts.  main() is called without await inside the try block, so when
\* loading or makeWASocket throws, the promise main() returned rejects with
\* nothing attached to it: the catch block with process.exit(1) never runs.
MainDone(ok) ==
  /\ exitCode = Running
  /\ rev = "closure"
  /\ pendingInit > 0
  /\ pendingInit' = pendingInit - 1
  /\ lastEvent' = Completion(IF ok THEN "main.done" ELSE "main.failed")
  /\ UNCHANGED otherVars
  /\ IF ok
       THEN /\ authLoads' = authLoads + 1
            /\ socks' = Append(socks, NewSock(Len(handlers) + 1, authLoads + 1))
            /\ handlers' = Append(handlers, NewHandler(Len(socks) + 1))
            /\ unhandled' = unhandled
       ELSE /\ unhandled' = TRUE
            /\ UNCHANGED <<authLoads, socks, handlers>>
  /\ UNCHANGED <<rev, exitCode, authFolder, pendingLogout, pendingSave, loggedOutClosed>>
  /\ UNCHANGED relayVars

\* creds.update: onCredsUpdate calls this.saveCreds() and returns
OnCredsUpdate(s) ==
  /\ exitCode = Running
  /\ "creds.update" \in socks[s].on
  /\ pendingSave < MaxPending
  /\ pendingSave' = pendingSave + 1
  /\ lastEvent' = Completion("creds.update")
  /\ UNCHANGED otherVars
  /\ UNCHANGED <<rev, handlers, socks, exitCode, authFolder, authLoads,
                 pendingLogout, pendingInit, unhandled, loggedOutClosed>>
  /\ UNCHANGED relayVars

\* the write started by saveCreds() settles
SaveCredsDone ==
  /\ exitCode = Running
  /\ pendingSave > 0
  /\ pendingSave' = pendingSave - 1
  /\ lastEvent' = Completion("saveCreds.done")
  /\ UNCHANGED otherVars
  /\ UNCHANGED <<rev, handlers, socks, exitCode, authFolder, authLoads,
                 pendingLogout, pendingInit, unhandled, loggedOutClosed>>
  /\ UNCHANGED relayVars

(***************************************************************************)
(* Message relay: onMessagesUpsert of each revision                        *)
(***************************************************************************)
Kinds == {"text", "image", "audio", "absent"}

Jids == {"u1", "u2"}

\* msg.key.fromMe, the content type of msg.message ("absent": msg.message is
\* null or undefined) and msg.key.remoteJid
Messages == [fromMe : BOOLEAN, kind : Kinds, jid : Jids]

\* batches of n messages; n is kept within MaxBatch and the room left in inbox
BatchSizes == {n \in 1..MaxBatch : Len(inbox) + n <= MaxInbox}

Batches(n) == [1..n -> Messages]

\* What the Chat Backend request settles with: a network error, or a response
\* with a status class, a body that parses as JSON or not, and the fields
\* reply and answer of the parsed object.
Responses ==
  {[net |-> "error", json |-> FALSE, reply |-> "absent", answer |-> "absent"]}
  \cup [net : {"2xx", "5xx"}, json : {TRUE}, reply : {"absent", "X"}, answer : {"absent", "Y"}]
  \cup {[net |-> c, json |-> FALSE, reply |-> "absent", answer |-> "absent"] : c \in {"2xx", "5xx"}}

Fallback == "No pude entender tu mensaje"

IsEcho_Never(m) == FALSE

IsEcho_Inverted(m) == ~m.fromMe

\* msg.key.fromMe
IsEcho(m) == m.fromMe

HasContent_Always(m) == TRUE

\* if (msg.message)
HasContent(m) == m.kind # "absent"

ReplyText_Answer(r) == IF r.answer # "absent" THEN r.answer ELSE Fallback

\* response.reply ?? fallback
ReplyText(r) == IF r.reply # "absent" THEN r.reply ELSE Fallback

Parses_Always(r) == TRUE

\* fetch resolves and response.json() resolves: the second then-callback
\* runs.  The status of the response is not looked at.
Parses(r) == r.net # "error" /\ r.json

NoResponse == [net |-> "none", json |-> FALSE, reply |-> "absent", answer |-> "absent"]

\* One entry of the relay's history.  op is "read" (sock.readMessages),
\* "download" (media retrieval, out says how it ended), "fetch" (request
\* issued) or "settled" (request settled with resp; out is "sent" when the
\* then-callback called sendMessage, "logged" when the catch logged).
Effect(op, id, r, out) == [op |-> op, id |-> id, resp |-> r, out |-> out]

Relay == [reads |-> reads, calls |-> calls, inflight |-> inflight,
          sent |-> sent, waiting |-> waiting, effects |-> effects,
          unhandled |-> unhandled]

Send_LastSender(h, id, box, text) ==
  [to |-> box[Len(box)].jid, cause |-> id, text |-> text, sock |-> handlers[h].sock]

\* this.sock.sendMessage(msg.key.remoteJid, {text}) by handler h for message
\* id; msg is the binding of the loop iteration that issued the call
Send(h, id, box, text) ==
  [to |-> box[id].jid, cause |-> id, text |-> text, sock |-> handlers[h].sock]

\* How a call of sock.readMessages ends; the code neither awaits it nor
\* attaches a catch to its promise.
ReadOutcomes == {"ok", "threw", "rejected"}

ReadsOk(n) == [k \in 1..n |-> "ok"]

RelayText_FetchFirst(rs, h, id, rd) ==
  [rs EXCEPT !.reads = @ \cup {id},
             !.calls = @ \cup {id},
             !.inflight = @ \cup {id},
             !.effects = @ \o <<Effect("fetch", id, NoResponse, "issued"),
                                Effect("read", id, NoResponse, "called")>>]

RelayText_Twice(rs, h, id, rd) ==
  [rs EXCEPT !.reads = @ \cup {id},
             !.calls = @ \cup {id},
             !.inflight = @ \cup {id},
             !.effects = @ \o <<Effect("read", id, NoResponse, "called"),
                                Effect("fetch", id, NoResponse, "issued"),
                                Effect("fetch", id, NoResponse, "issued")>>]

\* A message that got past the media part: this.sock.readMessages([msg.key]),
\* then fetch(...) whose promise chain is left to settle on its own.  rd is
\* how readMessages ends: if it throws, the catch of the loop body logs and
\* the fetch is never reached; if its promise rejects, nothing handles the
\* rejection and the fetch is issued all the same.
RelayText(rs, h, id, rd) ==
  IF rd = "threw"
    THEN [rs EXCEPT !.reads = @ \cup {id},
                    !.effects = Append(@, Effect("read", id, NoResponse, "threw"))]
    ELSE [rs EXCEPT
            !.reads = @ \cup {id},
            !.calls = @ \cup {id},
            !.inflight = @ \cup {id},
            !.unhandled = (@ \/ rd = "rejected"),
            !.effects = @ \o <<Effect("read", id, NoResponse,
                                      IF rd = "ok" THEN "called" ELSE "rejected"),
                               Effect("fetch", id, NoResponse, "issued")>>]

\* The for loop of onMessagesUpsert of handler h over the messages ids of box,
\* run until the batch ends or the run suspends at an awaited media download.
\* rd[id] is how the readMessages call for message id ends, if it is made.
RECURSIVE RunBatch(_, _, _, _, _)
RunBatch(rs, h, ids, box, rd) ==
  IF ids = <<>> THEN rs
  ELSE
    LET id == Head(ids)
        m == box[id]
        rest == Tail(ids)
    IN
    IF IsEcho(m) THEN RunBatch(rs, h, rest, box, rd)
    ELSE IF ~HasContent(m) \/ rev = "main" THEN RunBatch(rs, h, rest, box, rd)
    ELSE IF rev = "restartSock"
      THEN RunBatch([rs EXCEPT !.reads = @ \cup {id},
                               !.unhandled = (@ \/ rd[id] = "rejected")],
                    h, rest, box, rd)
    ELSE IF rev = "echo"
      THEN RunBatch([rs EXCEPT !.reads = @ \cup {id},
                               !.unhandled = (@ \/ rd[id] = "rejected"),
                               !.sent = IF rd[id] = "threw" THEN @
                                        ELSE Append(@, Send(h, id, box, "Echo"))],
                    h, rest, box, rd)
    \* initSocket revision
    ELSE IF m.kind = "image"
      \* this.downloadMediaMessage is not a member of the class: the call
      \* throws, the catch logs, the loop goes on
      THEN RunBatch([rs EXCEPT !.effects =
                       Append(@, Effect("download", id, NoResponse, "threw"))],
                    h, rest, box, rd)
    ELSE IF m.kind = "audio"
      \* await downloadMediaMessage(...): the run is suspended
      THEN [rs EXCEPT !.waiting = Append(@, [h |-> h, id |-> id, rest |-> rest,
                                            rd |-> [x \in {rest[k] : k \in 1..Len(rest)} |-> rd[x]]])]
    ELSE RunBatch(RelayText(rs, h, id, rd[id]), h, rest, box, rd)

SetRelay(rs) ==
  /\ reads' = rs.reads
  /\ calls' = rs.calls
  /\ inflight' = rs.inflight
  /\ sent' = rs.sent
  /\ waiting' = rs.waiting
  /\ effects' = rs.effects
  /\ unhandled' = rs.unhandled

RemoveAt(q, i) == [j \in 1..(Len(q) - 1) |-> IF j < i THEN q[j] ELSE q[j + 1]]

lifeVarsButUnhandled == <<rev, handlers, socks, exitCode, authFolder, authLoads,
                          pendingLogout, pendingInit, pendingSave, loggedOutClosed>>

\* messages.upsert delivered by socket s with the messages of batch; rd[k] is
\* how the readMessages call for the k-th message ends, if it is made
OnMessagesUpsertRead(s, batch, rd) ==
  /\ exitCode = Running
  /\ "messages.upsert" \in socks[s].on
  /\ Len(inbox) + Len(batch) <= MaxInbox
  /\ inbox' = inbox \o batch
  /\ SetRelay(RunBatch(Relay, socks[s].owner,
                       [k \in 1..Len(batch) |-> Len(inbox) + k], inbox',
                       [id \in (Len(inbox) + 1)..(Len(inbox) + Len(batch)) |-> rd[id - Len(inbox)]]))
  /\ lastEvent' = Completion("messages.upsert")
  /\ UNCHANGED otherVars
  /\ UNCHANGED lifeVarsButUnhandled

\* messages.upsert with every read receipt accepted
OnMessagesUpsert(s, batch) == OnMessagesUpsertRead(s, batch, ReadsOk(Len(batch)))

\* The awaited audio download settles.  If it rejects the catch block logs;
\* if it resolves, the call of downloadAndSaveMedia that follows names no
\* binding in scope and throws into the same catch block.  Either way the
\* loop goes on with the next message.
DownloadSettled(i, ok) ==
  /\ exitCode = Running
  /\ i \in 1..Len(waiting)
  /\ SetRelay(RunBatch([Relay EXCEPT
                          !.waiting = RemoveAt(waiting, i),
                          !.effects = Append(@, Effect("download", waiting[i].id, NoResponse,
                                                       IF ok THEN "resolved" ELSE "rejected"))],
                       waiting[i].h, waiting[i].rest, inbox, waiting[i].rd))
  /\ lastEvent' = Completion("download.settled")
  /\ UNCHANGED otherVars
  /\ UNCHANGED <<lifeVarsButUnhandled, inbox>>

\* The fetch for message id settles with r.  A body that parses as JSON is
\* answered through the handler's current socket; a network error or a body
\* that does not parse ends in the catch of the promise chain.  The promise
\* of sendMessage is neither awaited nor returned from the callback: when it
\* rejects (sendRejects, on a closed socket) nothing handles the rejection.
BackendSettles(id, r, sendRejects) ==
  /\ exitCode = Running
  /\ id \in inflight
  /\ sendRejects => (Parses(r) /\ socks[handlers[1].sock].closed)
  /\ inflight' = inflight \ {id}
  /\ sent' = IF Parses(r)
               THEN Append(sent, Send(1, id, inbox, ReplyText(r)))
               ELSE sent
  /\ effects' = Append(effects, Effect("settled", id, r,
                                       IF Parses(r) THEN "sent" ELSE "logged"))
  /\ unhandled' = (unhandled \/ sendRejects)
  /\ lastEvent' = Completion("backend.settled")
  /\ UNCHANGED otherVars
  /\ UNCHANGED <<lifeVarsButUnhandled, inbox, reads, calls, waiting>>

\* the fetch settles and, if a reply is sent, the send is accepted
BackendResponds(id, r) == BackendSettles(id, r, FALSE)

NextRelay ==
  \/ \E s \in 1..Len(socks), n \in BatchSizes :
       \E batch \in Batches(n) : OnMessagesUpsert(s, batch)
  \/ \E i \in 1..Len(waiting), ok \in BOOLEAN : DownloadSettled(i, ok)
  \/ \E id \in inflight, r \in Responses : BackendResponds(id, r)

InitRelay == InitIn(RelayRevs)

SpecRelay == InitRelay /\ [][NextRelay]_vars

Next ==
  \/ \E s \in 1..Len(socks), qr \in BOOLEAN, conn \in Connections,
        ld \in LastDisconnects, ok \in BOOLEAN :
       OnConnectionUpdate(s, qr, conn, ld, ok)
  \/ LogoutResolved
  \/ LogoutRejected
  \/ \E ok \in BOOLEAN : InitSocketDone(ok)
  \/ \E s \in 1..Len(socks) : OnCredsUpdate(s)
  \/ SaveCredsDone

Spec == Init /\ [][Next]_vars

\* The reconnect after a transient close, in the two revisions that await
\* the credentials before making the socket.
NextReconnect ==
  \/ \E s \in 1..Len(socks), qr \in BOOLEAN, conn \in Connections,
        ld \in LastDisconnects, ok \in BOOLEAN :
       OnConnectionUpdate(s, qr, conn, ld, ok)
  \/ LogoutResolved
  \/ LogoutRejected
  \/ \E ok \in BOOLEAN : InitSocketDone(ok)
  \/ \E ok \in BOOLEAN : MainDone(ok)
  \/ \E s \in 1..Len(socks) : OnCredsUpdate(s)
  \/ SaveCredsDone

InitReconnect == InitIn(ReconnectRevs)

SpecReconnect == InitReconnect /\ [][NextReconnect]_vars

\* The three events of one socket together, in the class revisions: the
\* connection lifecycle with messages.upsert batches of one text message
\* from a peer delivered in between.
PeerText == [fromMe |-> FALSE, kind |-> "text", jid |-> "u1"]

NextEvents ==
  \/ \E s \in 1..Len(socks), qr \in BOOLEAN, conn \in Connections,
        ld \in LastDisconnects, ok \in BOOLEAN :
       OnConnectionUpdate(s, qr, conn, ld, ok)
  \/ LogoutResolved
  \/ LogoutRejected
  \/ \E ok \in BOOLEAN : InitSocketDone(ok)
  \/ \E s \in 1..Len(socks) : OnCredsUpdate(s)
  \/ SaveCredsDone
  \/ \E s \in 1..Len(socks) : OnMessagesUpsert(s, <<PeerText>>)

InitEvents == InitIn(InitRevs)

SpecEvents == InitEvents /\ [][NextEvents]_vars

\* Closes and reconnects alone, in the initSocket revision, with room for
\* more reconnect attempts than maxQrAttempts.
NextRetry ==
  \/ \E s \in 1..Len(socks), conn \in {"open", "close"}, ld \in LastDisconnects :
       OnConnectionUpdateIn(MaxRetry + 1, s, FALSE, conn, ld, TRUE)
  \/ \E ok \in BOOLEAN : InitSocketDone(ok)

InitRetry == InitIn({"initSocket"})

SpecRetry == InitRetry /\ [][NextRetry]_vars

\* Events of superseded sockets.  No revision removes the listeners of a
\* socket it replaces, so a socket older than the newest one still reaches
\* its handler.  Here the newest socket only opens and closes (it closes
\* once), every QR challenge comes from an older socket, and a close of an
\* older socket leaves the closed flag of the newest one as it was.
Newest == Len(socks)

NextSuperseded ==
  \/ \E ld \in LastDisconnects :
       ~socks[Newest].closed /\ OnConnectionUpdate(Newest, FALSE, "close", ld, TRUE)
  \/ OnConnectionUpdate(Newest, FALSE, "open", NoDisconnect, TRUE)
  \/ \E ok \in BOOLEAN : InitSocketDone(ok)
  \/ \E s \in 1..(Newest - 1), qr \in BOOLEAN, conn \in {"none", "close"}, ld \in LastDisconnects :
       OnConnectionUpdate(s, qr, conn, ld, TRUE)
  \/ LogoutResolved
  \/ LogoutRejected

InitSuperseded == InitIn({"initSocket", "main"})

SpecSuperseded == InitSuperseded /\ [][NextSuperseded]_vars

\* A Chat Backend call in flight across a close and a reconnect, in the
\* initSocket revision: text messages arrive on the first socket while it is
\* connected, the connection closes and is made again, and the calls settle
\* with a reply at any point of that.
OkReply == [net |-> "2xx", json |-> TRUE, reply |-> "X", answer |-> "absent"]

NextInFlight ==
  \/ \E s \in 1..Len(socks), conn \in {"open", "close"}, ld \in LastDisconnects :
       OnConnectionUpdate(s, FALSE, conn, ld, TRUE)
  \/ \E ok \in BOOLEAN : InitSocketDone(ok)
  \/ ~socks[1].closed /\ OnMessagesUpsert(1, <<PeerText>>)
  \/ \E id \in inflight, sendRejects \in BOOLEAN : BackendSettles(id, OkReply, sendRejects)

InitInFlight == InitIn({"initSocket"})

SpecInFlight == InitInFlight /\ [][NextInFlight]_vars

\* Read receipts that fail, in the class revisions that relay or echo: text
\* messages in batches, each readMessages call ending in any of the three
\* ways, and the calls answered with a reply.
TextMessages == {m \in Messages : m.kind = "text"}

NextReceipt ==
  \/ \E s \in 1..Len(socks), n \in BatchSizes :
       \E batch \in [1..n -> TextMessages], rd \in [1..n -> ReadOutcomes] :
         OnMessagesUpsertRead(s, batch, rd)
  \/ \E id \in inflight : BackendResponds(id, OkReply)

InitReceipt == InitIn(InitRevs)

SpecReceipt == InitReceipt /\ [][NextReceipt]_vars

(***************************************************************************)
(* Start-up: startWhatsApp -> startAuthState -> main, in the two entry     *)
(* points that keep the credentials in globalResource ("main": index.ts    *)
(* 23-50, "restartSock": unnamed/part_001).  boot is "load" while the      *)
(* first useMultiFileAuthState is awaited, "reload" while the second one   *)
(* of part_001 is awaited, "failed" after a start-up failure, else "up".   *)
(***************************************************************************)
StartRevs == {"main", "restartSock"}

StartupExit_Swallow(failed) == Running

\* the catch of startWhatsApp and the .catch on main(): process.exit(1)
StartupExit(failed) == IF failed THEN 1 ELSE Running

\* main(): makeWASocket with globalResource.authState and a new handler.  A
\* throw inside main rejects its promise, which startAuthState catches.
StartMain(okMain) ==
  /\ IF okMain
       THEN /\ socks' = MainSocks(socks, handlers)
            /\ handlers' = MainHandlers(socks, handlers)
            /\ boot' = "up"
       ELSE /\ boot' = "failed"
            /\ UNCHANGED <<socks, handlers>>
  /\ exitCode' = StartupExit(~okMain)

\* The first useMultiFileAuthState settles.  stale: the loaded state is not
\* registered and has creds.me.  part_001 then deletes the folder and awaits
\* a second load; otherwise state and saveCreds go to globalResource and
\* main() is called.
AuthStateLoaded(ok, stale, okMain) ==
  /\ exitCode = Running
  /\ boot = "load"
  /\ stale => (ok /\ authFolder)
  /\ (~ok \/ (stale /\ rev = "restartSock")) => okMain
  /\ IF ~ok
       THEN /\ boot' = "failed"
            /\ exitCode' = StartupExit(TRUE)
            /\ lastEvent' = Completion("startup.loadFailed")
            /\ UNCHANGED <<authLoads, authFolder, socks, handlers>>
       ELSE IF stale /\ rev = "restartSock"
       THEN /\ boot' = "reload"
            /\ authLoads' = authLoads + 1
            /\ authFolder' = DeleteAuthFolder(TRUE)
            /\ lastEvent' = Completion("startup.stale")
            /\ UNCHANGED <<exitCode, socks, handlers>>
       ELSE /\ authLoads' = authLoads + 1
            /\ authFolder' = TRUE
            /\ StartMain(okMain)
            /\ lastEvent' = Completion(IF okMain THEN "startup.done" ELSE "startup.mainFailed")
  /\ UNCHANGED <<rev, pendingLogout, pendingInit, pendingSave, unhandled, loggedOutClosed>>
  /\ UNCHANGED <<relayVars, cli>>

\* part_001, line 46: the second useMultiFileAuthState settles.  Its result
\* is bound to newState and newSaveCreds, which nothing reads: lines 49-50
\* store the state and saveCreds of the first load.
AuthStateReloaded(ok, okMain) ==
  /\ exitCode = Running
  /\ boot = "reload"
  /\ ~ok => okMain
  /\ IF ~ok
       THEN /\ boot' = "failed"
            /\ exitCode' = StartupExit(TRUE)
            /\ lastEvent' = Completion("startup.loadFailed")
            /\ UNCHANGED <<authLoads, authFolder, socks, handlers>>
       ELSE /\ authLoads' = authLoads + 1
            /\ authFolder' = TRUE
            /\ StartMain(okMain)
            /\ lastEvent' = Completion(IF okMain THEN "startup.done" ELSE "startup.mainFailed")
  /\ UNCHANGED <<rev, pendingLogout, pendingInit, pendingSave, unhandled, loggedOutClosed>>
  /\ UNCHANGED <<relayVars, cli>>

\* Start-up followed by the events of a session that stays connected
NextStart ==
  \/ \E ok, stale, okMain \in BOOLEAN : AuthStateLoaded(ok, stale, okMain)
  \/ \E ok, okMain \in BOOLEAN : AuthStateReloaded(ok, okMain)
  \/ \E s \in 1..Len(socks), qr \in BOOLEAN, conn \in {"none", "open"} :
       OnConnectionUpdate(s, qr, conn, NoDisconnect, TRUE)
  \/ LogoutResolved
  \/ LogoutRejected
  \/ \E s \in 1..Len(socks) : OnCredsUpdate(s)
  \/ SaveCredsDone

InitStart ==
  /\ rev \in StartRevs
  /\ handlers = <<>>
  /\ socks = <<>>
  /\ exitCode = Running
  /\ authFolder \in BOOLEAN
  /\ authLoads = 0
  /\ pendingLogout = 0
  /\ pendingInit = 0
  /\ pendingSave = 0
  /\ unhandled = FALSE
  /\ loggedOutClosed = FALSE
  /\ lastEvent = Completion("start")
  /\ inbox = <<>>
  /\ reads = {}
  /\ calls = {}
  /\ inflight = {}
  /\ sent = <<>>
  /\ waiting = <<>>
  /\ effects = <<>>
  /\ boot = "load"
  /\ cli = CliOff

SpecStart == InitStart /\ [][NextStart]_vars

(***************************************************************************)
(* chat_cli.ts: a prompt loop that sends each line to a backend.  A line   *)
(* is a sequence of characters, so that trim and toLowerCase do work.      *)
(* cli.pc is "ask" while rl.question is pending, "call" while callBackend  *)
(* is awaited, "done" after the loop was left, "eof" when the input ended. *)
(***************************************************************************)
Whitespace == {" ", "\t"}

RECURSIVE TrimStart(_)
TrimStart(s) == IF s # <<>> /\ Head(s) \in Whitespace THEN TrimStart(Tail(s)) ELSE s

RECURSIVE TrimEnd(_)
TrimEnd(s) ==
  IF s # <<>> /\ s[Len(s)] \in Whitespace THEN TrimEnd(SubSeq(s, 1, Len(s) - 1)) ELSE s

\* String.prototype.trim
Trim(s) == TrimEnd(TrimStart(s))

ToLowerChar(c) ==
  CASE c = "E" -> "e" [] c = "X" -> "x" [] c = "I" -> "i" [] c = "T" -> "t"
    [] c = "H" -> "h" [] c = "S" -> "s" [] OTHER -> c

\* String.prototype.toLowerCase
ToLowerCase(s) == [i \in 1..Len(s) |-> ToLowerChar(s[i])]

ExitKeyword == <<"e", "x", "i", "t">>

IsExit_CaseSensitive(text) == text = ExitKeyword

\* text.toLowerCase() === "exit"
IsExit(text) == ToLowerCase(text) = ExitKeyword

\* lines the user may type
Lines == {<<>>, <<" ", "\t">>, <<"h", "i">>, <<" ", "H", "i">>, ExitKeyword,
          <<" ", "E", "x", "I", "t", " ">>, <<"e", "x", "i", "t", "s">>}

\* process.env.USER_ID: unset, empty or set
UserEnvs == {"unset", "", "u7"}

\* process.env.USER_ID || "cli-user"
UserId(env) == IF env \in {"unset", ""} THEN "cli-user" ELSE env

\* What callBackend puts on the wire: the message as the query parameter of
\* the URL (with three fixed parameters, left out here) and no body.  Its
\* userId parameter is never read, so no user id is sent.
CliRequest(message, userId) == [query |-> message, user_id |-> "absent"]

\* what the backend answers to the CLI
CliResponses == {r \in Responses : r.net = "2xx" \/ (r.reply = "absent" /\ r.answer = "absent")}

\* result.answer ?? "(no reply)"
CliReply(r) == IF r.answer # "absent" THEN r.answer ELSE "(no reply)"

\* callBackend resolves: fetch resolved, response.ok, and the body parses
CliResolves(r) == r.net = "2xx" /\ r.json

\* A line is read: trimmed; empty -> continue; the exit keyword -> break and
\* the finally block closes the interface; else callBackend is awaited.
CliLine(line) ==
  LET text == Trim(line)
      act == IF text = <<>> THEN "reprompt" ELSE IF IsExit(text) THEN "exit" ELSE "call"
  IN
  /\ cli.pc = "ask"
  /\ Len(cli.log) < MaxLines
  /\ cli' = [cli EXCEPT
               !.log = Append(@, [line |-> line, act |-> act]),
               !.text = text,
               !.pc = IF act = "reprompt" THEN "ask" ELSE IF act = "exit" THEN "done" ELSE "call",
               !.closed = (act = "exit"),
               !.reqs = IF act = "call" THEN Append(@, CliRequest(text, cli.userId)) ELSE @]
  /\ UNCHANGED <<lifeVars, relayVars, lastEvent, boot>>

\* callBackend settles: the reply is printed, or the error is caught inside
\* the loop and printed; either way the loop prompts again.
CliResponds(r) ==
  /\ cli.pc = "call"
  /\ cli' = [cli EXCEPT
               !.pc = "ask",
               !.out = Append(@, IF CliResolves(r)
                                   THEN [kind |-> "bot", text |-> CliReply(r), resp |-> r]
                                   ELSE [kind |-> "error", text |-> "Error", resp |-> r])]
  /\ UNCHANGED <<lifeVars, relayVars, lastEvent, boot>>

\* The input ends while a question is pending: readline closes the
\* interface and the question is never answered.
CliEof ==
  /\ cli.pc = "ask"
  /\ cli' = [cli EXCEPT !.pc = "eof", !.closed = TRUE]
  /\ UNCHANGED <<lifeVars, relayVars, lastEvent, boot>>

NextCli ==
  \/ \E line \in Lines : CliLine(line)
  \/ \E r \in CliResponses : CliResponds(r)
  \/ CliEof

InitCli ==
  /\ rev = "chat_cli"
  /\ handlers = <<>>
  /\ socks = <<>>
  /\ exitCode = Running
  /\ authFolder = FALSE
  /\ authLoads = 0
  /\ pendingLogout = 0
  /\ pendingInit = 0
  /\ pendingSave = 0
  /\ unhandled = FALSE
  /\ loggedOutClosed = FALSE
  /\ lastEvent = Completion("start")
  /\ inbox = <<>>
  /\ reads = {}
  /\ calls = {}
  /\ inflight = {}
  /\ sent = <<>>
  /\ waiting = <<>>
  /\ effects = <<>>
  /\ boot = "up"
  /\ \E env \in UserEnvs :
       cli = [pc |-> "ask", userId |-> UserId(env), text |-> <<>>, log |-> <<>>,
              reqs |-> <<>>, out |-> <<>>, closed |-> FALSE]

SpecCli == InitCli /\ [][NextCli]_vars

(***************************************************************************)
(* Claims about the QR challenge counter                                   *)
(***************************************************************************)
Handlers == DOMAIN handlers

\* C1 (as stated): in every reachable state, whatever connection.update
\* events were delivered, qrAttempts is at most maxQrAttempts.
C1_QrAttemptsNeverExceedMax ==
  \A h \in Handlers : handlers[h].qrAttempts <= maxQrAttempts

\* C1 (amended): qrAttempts is at most maxQrAttempts until the forced logout
\* is invoked; every QR event beyond the third still increments it and
\* invokes sock.logout, so the excess over maxQrAttempts always equals the
\* number of logout calls made by that handler.
C1_ExcessEqualsLogouts ==
  \A h \in Handlers :
    handlers[h].logouts =
      IF handlers[h].qrAttempts > maxQrAttempts
        THEN handlers[h].qrAttempts - maxQrAttempts
        ELSE 0

C1_Witness ==
  \E h \in Handlers :
    /\ handlers[h].qrAttempts = maxQrAttempts + 1
    /\ handlers[h].logouts = 1
    /\ exitCode = Running

\* C2: of the QR events delivered to one handler at most 3 reach
\* QRCode.toString; the 4th and later ones are never rendered.
C2_AtMostThreeRenders ==
  \A h \in Handlers : handlers[h].renders <= maxQrAttempts

C2_Witness ==
  \E h \in Handlers :
    /\ handlers[h].qrAttempts >= maxQrAttempts + 2
    /\ handlers[h].renders = maxQrAttempts

\* C3: once the QR challenges exceed maxQrAttempts, sock.logout is invoked
\* exactly once, also when more QR events arrive while the first logout is
\* still awaited.
C3_LogoutExactlyOnce ==
  \A h \in Handlers :
    handlers[h].qrAttempts > maxQrAttempts => handlers[h].logouts = 1

(***************************************************************************)
(* Claims about connection close                                           *)
(***************************************************************************)
\* C4: a close with the logged-out reason is terminal in every revision:
\* from the step that handles it on, no socket is created and no reconnect
\* is started.
C4_LoggedOutIsTerminal ==
  [][loggedOutClosed' => (Len(socks') = Len(socks) /\ pendingInit' <= pendingInit)]_vars

\* C5: in the revisions that have deleteAuthFolder, once a logged-out close
\* was handled the auth folder is gone and the process has exited with 0.
C5_LogoutDeletesCredsAndExits0 ==
  (rev \in InitRevs /\ loggedOutClosed) => (exitCode = 0 /\ ~authFolder)

C5_Witness ==
  /\ rev = "initSocket"
  /\ loggedOutClosed
  /\ authLoads > 1
  /\ exitCode = 0

IsTransientClose(e) ==
  /\ e.type = "connection.update"
  /\ e.connection = "close"
  /\ ~(e.ld.present /\ e.ld.statusCode = "loggedOut")

ReconnectStep ==
  /\ IsTransientClose(lastEvent') => pendingInit' = pendingInit + 1
  /\ lastEvent'.type = "initSocket.done" =>
       /\ authLoads' = authLoads + 1
       /\ Len(socks') = Len(socks) + 1
       /\ socks'[Len(socks')].on = EventNames
       /\ socks'[Len(socks')].auth = authLoads'
       /\ handlers'[1].sock = Len(socks')

\* C6: in the initSocket revision every close whose reason is not the
\* logged-out sentinel (no lastDisconnect and no status code included) calls
\* initSocket, and initSocket, when it runs to its end, has reloaded the
\* credentials and made a new socket with the three handlers registered,
\* which becomes the handler's socket.
C6_TransientCloseReconnects == [][(rev \in InitRevs) => ReconnectStep]_vars

C6_Witness ==
  /\ rev = "initSocket"
  /\ lastEvent.type = "initSocket.done"
  /\ Len(socks) = 3
  /\ socks[3].auth = 3
  /\ handlers[1].sock = 3

\* C7: qrAttempts is 0 whenever a new socket (Session) has just been created,
\* so the first QR challenge of the new socket counts as attempt 1.
C7_CounterResetOnNewSession ==
  [][Len(socks') > Len(socks) => (handlers'[socks'[Len(socks')].owner].qrAttempts = 0)]_vars

LiveSocks == {s \in 1..Len(socks) : ~socks[s].closed /\ socks[s].on # {}}

\* C8: at most one socket is live (created, not closed, handlers registered)
\* at any time, for every interleaving of close events, two closes delivered
\* before the first initSocket has finished included.
C8_AtMostOneLiveSocket == rev \in InitRevs => Cardinality(LiveSocks) <= 1

\* C9: when the creds.update handler has returned, the save it started has
\* completed: no state has a returned handler and a pending save.
C9_SaveCompletedOnReturn == lastEvent.type = "creds.update" => pendingSave = 0

\* C18: once QR attempts are exhausted and sock.logout has been called, the
\* process never exits with code 0, also when the logout makes the socket
\* emit a close with the logged-out reason that the handler processes before
\* the awaited logout returns.
C18_ExhaustionNeverExits0 ==
  (rev \in InitRevs /\ \E h \in Handlers : handlers[h].logouts >= 1) => exitCode # 0

\* C21: transient reconnection has no retry bound.  Whatever the number of
\* reconnect attempts made so far, a close that is not a logout starts one
\* more attempt (a call of initSocket) and leaves the process running, and
\* the QR counter, the only bounded counter of the handler, is not involved.
Attempts == pendingInit + authLoads - 1

RetryStep ==
  IsTransientClose(lastEvent') =>
    /\ Attempts' = Attempts + 1
    /\ exitCode' = Running
    /\ handlers'[1].qrAttempts = handlers[1].qrAttempts

C21_NoRetryBound == [][RetryStep]_vars

\* more attempts than maxQrAttempts, all completed, and still running
C21_Witness ==
  /\ Attempts = MaxRetry
  /\ MaxRetry > maxQrAttempts
  /\ pendingInit = 0
  /\ exitCode = Running
  /\ handlers[1].qrAttempts = 0

\* C31: after a reconnect, an event of the superseded socket has no effect
\* on the handler: a QR or a close of the old socket increments no
\* qrAttempts and triggers no logout, no further reconnect and no exit.
FromSuperseded ==
  /\ lastEvent'.type = "connection.update"
  /\ \/ lastEvent'.qr
     \/ lastEvent'.connection = "close" /\ socks'[Newest].closed = socks[Newest].closed

SupersededStep ==
  FromSuperseded =>
    /\ \A h \in Handlers : handlers'[h].qrAttempts = handlers[h].qrAttempts
    /\ pendingLogout' = pendingLogout
    /\ pendingInit' = pendingInit
    /\ Len(socks') = Len(socks)
    /\ exitCode' = exitCode

C31_SupersededSocketIsInert == [][SupersededStep]_vars

\* C19: a failure while establishing a reconnect (loading the credentials or
\* making the socket after a transient close) terminates the process with
\* exit code 1; it leaves no uncaught rejection and starts no further attempt.
ReconnectFailureStep ==
  lastEvent'.type \in {"initSocket.failed", "main.failed"} =>
    (exitCode' = 1 /\ unhandled' = unhandled /\ Len(socks') = Len(socks) /\ pendingInit' < pendingInit)

C19_ReconnectFailureExits1 == [][ReconnectFailureStep]_vars

\* C20: a connection.update with connection = "open", a messages.upsert and
\* a creds.update each leave every handler's qrAttempts unchanged; qrAttempts
\* changes only in a connection.update that carries a qr, and then by
\* exactly +1.
QrDelta(h) == handlers'[h].qrAttempts - handlers[h].qrAttempts

QrFrameStep ==
  LET e == lastEvent'
      quiet == \/ e.type \in {"messages.upsert", "creds.update"}
               \/ e.type = "connection.update" /\ e.connection = "open"
      qrEvent == e.type = "connection.update" /\ e.qr
  IN /\ Len(handlers') >= Len(handlers)
     /\ quiet => \A h \in Handlers : QrDelta(h) = 0
     /\ \A h \in Handlers : QrDelta(h) # 0 => (qrEvent /\ QrDelta(h) = 1)
     /\ qrEvent => \E h \in Handlers : QrDelta(h) = 1

C20_OnlyQrChangesQrAttempts == [][QrFrameStep]_vars

\* a handler that has counted challenges has then handled a message, a
\* credentials update and, last, a connection open, with its count intact
C20_Witness ==
  /\ lastEvent.type = "connection.update" /\ lastEvent.connection = "open"
  /\ \E h \in Handlers : handlers[h].qrAttempts = 2
  /\ SumQr(handlers) = 2
  /\ inbox # <<>>
  /\ pendingSave > 0

\* C22: a failure during initial start-up, be it the loading of the auth
\* state or the creation of the socket and handler in main, terminates the
\* process with exit code 1, and only a failure does.
StartupFailures == {"startup.loadFailed", "startup.mainFailed"}

C22_StartupFailureExits1 ==
  /\ lastEvent.type \in StartupFailures => (exitCode = 1 /\ socks = <<>>)
  /\ boot = "failed" <=> lastEvent.type \in StartupFailures
  /\ lastEvent.type \in {"startup.done", "startup.stale"} => exitCode = Running

\* main fails after the stale session was discarded and reloaded
C22_Witness ==
  /\ lastEvent.type = "startup.mainFailed"
  /\ authLoads = 2
  /\ exitCode = 1

\* C30: when startAuthState finds a stale session it deletes the auth folder
\* and the socket is then created with the credentials loaded after the
\* deletion, not with the state loaded before it.
C30_SocketUsesReloadedCreds ==
  (rev = "restartSock" /\ boot = "up" /\ authLoads = 2) => socks[1].auth = authLoads

(***************************************************************************)
(* Claims about the message relay                                          *)
(***************************************************************************)
Causes == {sent[k].cause : k \in 1..Len(sent)}

\* C10: a message with key.fromMe = true never triggers a read receipt, a
\* Chat Backend call or a sendMessage, whatever batch it arrives in.
C10_EchoTriggersNothing ==
  \A id \in 1..Len(inbox) :
    inbox[id].fromMe => (id \notin reads /\ id \notin calls /\ id \notin Causes)

C10_Witness ==
  \E i, j \in 1..Len(inbox) :
    /\ rev = "initSocket"
    /\ inbox[i].fromMe /\ inbox[i].kind = "text"
    /\ ~inbox[j].fromMe
    /\ i < j
    /\ j \in reads /\ j \in calls /\ j \in Causes
    /\ waiting = <<>> /\ inflight = {}

\* The requests that have settled, and the sendMessage calls made for a message
Settled == {k \in 1..Len(effects) : effects[k].op = "settled"}

SentFor(id) == {k \in 1..Len(sent) : sent[k].cause = id}

\* C11: when the response of the Chat Backend has reply = X the peer is sent
\* exactly the text X, once; when it has neither reply nor answer the peer
\* is sent the fixed fallback string.
C11_ReplyOrFallbackIsSent ==
  \A k \in Settled :
    LET id == effects[k].id
        r == effects[k].resp
    IN (r.net = "2xx" /\ r.json) =>
         /\ r.reply = "X" =>
              /\ Cardinality(SentFor(id)) = 1
              /\ \A n \in SentFor(id) : sent[n].text = "X" /\ sent[n].to = inbox[id].jid
         /\ (r.reply = "absent" /\ r.answer = "absent") =>
              /\ Cardinality(SentFor(id)) = 1
              /\ \A n \in SentFor(id) : sent[n].text = Fallback /\ sent[n].to = inbox[id].jid

C11_Witness ==
  \E k1, k2 \in Settled :
    /\ effects[k1].resp = [net |-> "2xx", json |-> TRUE, reply |-> "X", answer |-> "absent"]
    /\ effects[k2].resp = [net |-> "2xx", json |-> TRUE, reply |-> "absent", answer |-> "absent"]
    /\ \E n \in SentFor(effects[k1].id) : sent[n].text = "X"
    /\ \E n \in SentFor(effects[k2].id) : sent[n].text = Fallback

\* C12: when the response has only answer populated (answer = Y, no reply)
\* the peer is sent Y; the fallback string is sent only when both reply and
\* answer are absent.
C12_AnswerFieldIsRelayed ==
  \A k \in Settled :
    LET id == effects[k].id
        r == effects[k].resp
    IN (r.net = "2xx" /\ r.json) =>
         /\ (r.reply = "absent" /\ r.answer = "Y") =>
              \A n \in SentFor(id) : sent[n].text = "Y"
         /\ (\E n \in SentFor(id) : sent[n].text = Fallback) =>
              (r.reply = "absent" /\ r.answer = "absent")

\* C13: when the Chat Backend answers with a non-2xx status, whatever the
\* body, nothing is sent to the peer for that message and no fault is left
\* unhandled.
C13_Non2xxSendsNothing ==
  \A k \in Settled :
    effects[k].resp.net = "5xx" => (SentFor(effects[k].id) = {} /\ ~unhandled)

\* C14: when the Chat Backend call fails with a network error or with a body
\* that does not parse as JSON, the failure is logged, nothing is sent to the
\* peer for that message, and the process keeps running and handling
\* messages.
C14_FailedCallIsLoggedNotSent ==
  \A k \in Settled :
    LET r == effects[k].resp
    IN (r.net = "error" \/ ~r.json) =>
         /\ effects[k].out = "logged"
         /\ SentFor(effects[k].id) = {}
         /\ exitCode = Running
         /\ ~unhandled

\* a call failed, and a message delivered in a later batch was then read and
\* relayed, and answered
C14_Witness ==
  \E k \in Settled : \E j \in 1..Len(effects) :
    /\ effects[k].resp.net = "error" \/ ~effects[k].resp.json
    /\ k < j
    /\ effects[j].op = "fetch"
    /\ effects[j].id # effects[k].id
    /\ SentFor(effects[j].id) # {}

\* The media retrievals that have ended, by how they ended
Downloads(outs) == {k \in 1..Len(effects) : effects[k].op = "download" /\ effects[k].out \in outs}

\* C15: when the retrieval or the saving of the bytes of an image or audio
\* message fails, the message is still relayed: the Chat Backend is called
\* for it, with the text or caption and an empty media payload.
C15_MediaFailureStillRelays ==
  \A k \in Downloads({"threw", "rejected"}) : effects[k].id \in calls

\* C16: for an image or audio message whose media is retrieved, a Chat
\* Backend call is issued for that message (carrying its caption or text,
\* the sender's remoteJid, the MIME type and the bytes in base64).
C16_RetrievedMediaIsRelayed ==
  \A k \in Downloads({"resolved"}) : effects[k].id \in calls

\* C17: for every Chat Backend call issued for a message, readMessages was
\* called with that message's key before the call was issued.
C17_ReadBeforeBackendCall ==
  \A k \in 1..Len(effects) :
    effects[k].op = "fetch" =>
      \E j \in 1..(k - 1) : effects[j].op = "read" /\ effects[j].id = effects[k].id

C17_Witness ==
  \E k1, k2 \in 1..Len(effects) :
    /\ effects[k1].op = "fetch" /\ effects[k2].op = "fetch"
    /\ effects[k1].id # effects[k2].id
    /\ calls = {effects[k1].id, effects[k2].id}

\* peer messages with content: the only ones the relay may answer
PeerContent == {id \in 1..Len(inbox) : ~inbox[id].fromMe /\ inbox[id].kind # "absent"}

\* C26: the relay cannot enter a reply loop.  Messages with fromMe = true,
\* which is how the session's own sends resurface, cause no send, so the
\* number of sendMessage calls never exceeds the number of peer messages
\* with content.
C26_NoReplyLoop ==
  /\ Len(sent) <= Cardinality(PeerContent)
  /\ \A n \in 1..Len(sent) : sent[n].cause \in PeerContent

\* a reply was sent, a message of the session to the same peer came in
\* after the answered one, and everything has settled with that one send
C26_Witness ==
  \E j \in 1..Len(inbox) :
    /\ Len(sent) = 1
    /\ j > sent[1].cause
    /\ inbox[j].fromMe /\ inbox[j].kind = "text" /\ inbox[j].jid = sent[1].to
    /\ inflight = {} /\ waiting = <<>>

Fetches(id) == {k \in 1..Len(effects) : effects[k].op = "fetch" /\ effects[k].id = id}

\* messages a suspended run of the handler has not reached yet
Held == UNION {{waiting[i].rest[k] : k \in 1..Len(waiting[i].rest)} : i \in 1..Len(waiting)}

\* C27: each non-echo text message with content causes exactly one Chat
\* Backend call, as soon as the loop has reached it, and at most one message
\* sent to the peer, for every batch size and every order of responses.
C27_OneCallAtMostOneSend ==
  rev = "initSocket" =>
    \A id \in 1..Len(inbox) :
      (~inbox[id].fromMe /\ inbox[id].kind = "text") =>
        /\ Cardinality(Fetches(id)) <= 1
        /\ id \notin Held => Cardinality(Fetches(id)) = 1
        /\ Cardinality(SentFor(id)) <= 1
        /\ id \in inflight => SentFor(id) = {}

\* two texts of one batch, answered in the reverse order
C27_Witness ==
  \E k1, k2 \in Settled :
    /\ k1 < k2
    /\ effects[k1].id > effects[k2].id
    /\ inbox[effects[k1].id].kind = "text" /\ inbox[effects[k2].id].kind = "text"
    /\ Cardinality(SentFor(effects[k1].id)) = 1
    /\ Cardinality(SentFor(effects[k2].id)) = 1

\* C28: when the connection closes and a reconnect replaces the socket while
\* a Chat Backend call is in flight, the reply send made when the call
\* completes goes to a closed socket, so that it reaches the peer through
\* no socket, and it raises no unhandled fault.
LateSendStep ==
  LET n == Len(sent') IN
  (lastEvent'.type = "backend.settled" /\ n = Len(sent) + 1 /\ sent'[n].sock # 1) =>
    (socks[sent'[n].sock].closed /\ unhandled' = unhandled)

C28_LateReplyFailsSilently == [][LateSendStep]_vars

FailedReads == {k \in 1..Len(effects) : effects[k].op = "read" /\ effects[k].out \in {"threw", "rejected"}}

\* C29: a failure of readMessages, thrown or rejected, is ignored: the Chat
\* Backend call for that message is still issued and no fault is left
\* unhandled.
C29_ReadFailureIgnored ==
  rev = "initSocket" =>
    \A k \in FailedReads : (effects[k].id \in calls /\ ~unhandled)

\* C32: every message sent as a backend reply is addressed to the remoteJid
\* of the inbound message that caused the backend call, however many calls
\* are in flight at once and in whatever order their responses arrive.
C32_ReplyGoesToSender ==
  rev = "initSocket" =>
    \A n \in 1..Len(sent) : sent[n].to = inbox[sent[n].cause].jid

\* messages of two different peers, both calls in flight at once, answered
\* in the reverse order
C32_Witness ==
  /\ rev = "initSocket"
  /\ Len(sent) = 2
  /\ sent[1].cause > sent[2].cause
  /\ sent[1].to = "u2" /\ sent[2].to = "u1"
  /\ inbox[sent[1].cause].jid = "u2" /\ inbox[sent[2].cause].jid = "u1"

\* C33: replies to two inbound messages of the same sender are sent in the
\* order in which the messages were received, whatever the order in which
\* the two Chat Backend responses arrive.
C33_RepliesInArrivalOrder ==
  rev = "initSocket" =>
    \A n1, n2 \in 1..Len(sent) :
      (n1 < n2 /\ sent[n1].to = sent[n2].to) => sent[n1].cause < sent[n2].cause

\* messages whose processing ended in the catch block of the loop body
Thrown == {effects[k].id : k \in Downloads({"threw", "rejected", "resolved"})}

\* C34: an exception raised while one message is processed does not stop the
\* batch: every later non-echo message with content is still processed, with
\* its read receipt and its backend call, once the loop has reached it.
C34_ExceptionDoesNotStopBatch ==
  rev = "initSocket" =>
    \A k \in Thrown : \A j \in PeerContent :
      (j > k /\ j \notin Held /\ (\A i \in 1..Len(waiting) : waiting[i].id # j)) =>
        (j \in reads /\ j \in calls)

\* C35: a non-echo event whose message content is absent causes no read
\* receipt, no Chat Backend call and no sendMessage.
C35_NoContentNoEffect ==
  \A id \in 1..Len(inbox) :
    (~inbox[id].fromMe /\ inbox[id].kind = "absent") =>
      /\ id \notin reads /\ id \notin calls /\ id \notin Causes
      /\ \A k \in 1..Len(effects) : effects[k].id # id

\* an event without content followed, in the same run of the relay, by a
\* text message that was read, relayed and answered
C35_Witness ==
  \E i, j \in 1..Len(inbox) :
    /\ rev = "initSocket"
    /\ i < j
    /\ ~inbox[i].fromMe /\ inbox[i].kind = "absent"
    /\ ~inbox[j].fromMe /\ inbox[j].kind = "text"
    /\ j \in reads /\ j \in calls /\ j \in Causes

(***************************************************************************)
(* Claims about the chat CLI                                               *)
(***************************************************************************)
BotLines == {k \in 1..Len(cli.out) : cli.out[k].kind = "bot"}

\* C23: the chat CLI prints the reply text whichever of reply and answer
\* carries it: for reply = X and no answer it prints X, and it prints the
\* "(no reply)" placeholder only when both fields are absent.
C23_CliPrintsReplyOrAnswer ==
  \A k \in BotLines :
    LET r == cli.out[k].resp
    IN /\ (r.reply = "X" /\ r.answer = "absent") => cli.out[k].text = "X"
       /\ r.answer = "Y" => cli.out[k].text = "Y"
       /\ cli.out[k].text = "(no reply)" => (r.reply = "absent" /\ r.answer = "absent")

IsCall(e) == e.act = "call"

CallLines == SelectSeq(cli.log, IsCall)

\* C24: every backend request of the chat CLI carries the typed message and
\* the configured user id (USER_ID, default cli-user).
C24_CliRequestCarriesMessageAndUser ==
  /\ Len(cli.reqs) = Len(CallLines)
  /\ \A k \in 1..Len(cli.reqs) :
       /\ cli.reqs[k].query = Trim(CallLines[k].line)
       /\ cli.reqs[k].user_id = cli.userId

\* the lines that are the exit keyword, and the blank ones, spelled out
ExitLines == {<<"e", "x", "i", "t">>, <<" ", "E", "x", "I", "t", " ">>}

BlankLines == {<<>>, <<" ", "\t">>}

\* C25: the loop ends only on the exit keyword, matched case-insensitively
\* after trimming; a blank line makes no backend call and prompts again; a
\* backend error (network failure, non-2xx status, unparseable body) is
\* printed and the loop goes on to the next prompt; the readline interface
\* is closed whenever the loop has ended.
C25_CliLoop ==
  /\ \A k \in 1..Len(cli.log) :
       /\ cli.log[k].act = "exit" <=> cli.log[k].line \in ExitLines
       /\ cli.log[k].act = "reprompt" <=> cli.log[k].line \in BlankLines
       /\ cli.log[k].act = "exit" => k = Len(cli.log)
  /\ cli.pc = "done" <=> (cli.log # <<>> /\ cli.log[Len(cli.log)].act = "exit")
  /\ cli.pc \in {"done", "eof"} <=> cli.closed
  /\ Len(cli.reqs) = Len(CallLines)
  /\ \A k \in 1..Len(cli.out) :
       cli.out[k].kind = "error" <=> (cli.out[k].resp.net # "2xx" \/ ~cli.out[k].resp.json)
  /\ cli.pc = "call" <=> Len(cli.reqs) = Len(cli.out) + 1
  /\ cli.pc # "call" => Len(cli.reqs) = Len(cli.out)

\* a blank line, then a call answered with status 500, then " ExIt "
C25_Witness ==
  /\ cli.pc = "done" /\ cli.closed
  /\ Len(cli.log) = 3
  /\ cli.log[1].line = <<" ", "\t">>
  /\ cli.log[2].act = "call"
  /\ cli.log[3].line = <<" ", "E", "x", "I", "t", " ">>
  /\ Len(cli.out) = 1 /\ cli.out[1].kind = "error" /\ cli.out[1].resp.net = "5xx"

====
